---- MODULE Spec2Model ----
(***************************************************************************)
(* FastIndex (src/static_index/fast_index.h): a static index over a sorted *)
(* record table.  reorganize() samples fence keys of the table into the    *)
(* inner-node buffer, find() walks the buffer with 3-key vector            *)
(* comparisons down to an offset range and finishes with a binary search   *)
(* and a left/right scan over duplicates.                                  *)
(*                                                                         *)
(* Keys are 4-byte integers; the vector comparison is the signed 32-bit    *)
(* one (_mm_cmpgt_epi32).  A record's reference (value_) is modelled as    *)
(* the record's offset in the sorted table, so references are distinct.    *)
(* Relative to one query key k a sorted table is three runs: the records   *)
(* below k, the records equal to k, the records above k; the tables of the *)
(* model are those three-run tables over the keys 0, 1, 2.                 *)
(***************************************************************************)
EXTENDS Integers, Sequences, FiniteSets, TLC

\* ---------------------------------------------------------------- bounds
\* sizes 0..MaxSmall are too small for any tree (num_layers >= 4)
MaxSmall == 3
\* the indexed range of a tree of P partitions is P * m, m in 1..MaxBlocks
MaxBlocks == 2
\* records after the indexed range (size % P), 0..MaxTail
MaxTail == 1
\* largest table
MaxSize == 260
\* a run of the middle key has at most MaxRun records, or reaches the end
MaxRun == 2
\* reorganize() calls per index
MaxReorg == 2
\* requested depths 0..MaxLayers
MaxLayers == 8

\* ------------------------------------------------------ program constants
SIMD_SIZE == 16
CACHELINE_SIZE == 64
PAGE_SIZE == 4096
\* sizeof(KeyT), asserted by the constructor
KEY_SIZE == 4
\* nullptr
NULLPTR == 0
\* KeyT *inner_nodes_ has no initializer: an address that was never allocated
WILDPTR == -1

RECURSIVE Pow(_, _)
Pow(b, e) == IF e = 0 THEN 1 ELSE b * Pow(b, e - 1)

\* size_t d = std::log(x) / std::log(2)
RECURSIVE Log2(_)
Log2(x) == IF x < 2 THEN 0 ELSE 1 + Log2(x \div 2)

\* ------------------------------------------------ geometry (constructor)
simd_depth_ == Log2((SIMD_SIZE \div KEY_SIZE) + 1)
simd_key_capacity_ == Pow(2, simd_depth_) - 1

cacheline_depth_raw == Log2((CACHELINE_SIZE \div KEY_SIZE) + 1)
cacheline_depth_ ==
  IF cacheline_depth_raw % simd_depth_ # 0
  THEN (cacheline_depth_raw \div simd_depth_) * simd_depth_
  ELSE cacheline_depth_raw
cacheline_key_capacity_ == Pow(2, cacheline_depth_) - 1
cacheline_capacity_ == cacheline_key_capacity_ \div simd_key_capacity_

page_depth_raw == Log2((PAGE_SIZE \div KEY_SIZE) + 1)
page_depth_ ==
  IF page_depth_raw % cacheline_depth_ # 0
  THEN (page_depth_raw \div cacheline_depth_) * cacheline_depth_
  ELSE page_depth_raw
page_key_capacity_ ==
  IF page_depth_raw % cacheline_depth_ # 0
  THEN Pow(2, page_depth_) - 1
  ELSE PAGE_SIZE \div KEY_SIZE

\* the constructor's ASSERTs on the geometry (lines 22, 44, 58)
GeometryOK ==
  /\ KEY_SIZE = 4
  /\ cacheline_key_capacity_ % simd_key_capacity_ = 0
  /\ page_key_capacity_ % cacheline_key_capacity_ = 0

\* the constructor's last ASSERT: num_layers_ % cacheline_depth_ == 0
LayersOK(n) == n % cacheline_depth_ = 0

\* ------------------------------------------------------------ the tables
Keys == {0, 1, 2}
QueryKeys == {-1, 0, 1, 2, 3}

\* the sorted table with c1 records of key 0, c2 - c1 of key 1, the rest 2
Table(n, c1, c2) ==
  [i \in 0 .. n - 1 |-> IF i < c1 THEN 0 ELSE IF i < c2 THEN 1 ELSE 2]

\* sizes of tables whose indexed range is m blocks of 2^layers records
LevelSizes(layers) ==
  { s \in { Pow(2, layers) * m + t : m \in 1 .. MaxBlocks, t \in 0 .. MaxTail } :
      s <= MaxSize }

Sizes(layers) ==
  (0 .. MaxSmall) \cup LevelSizes(cacheline_depth_) \cup LevelSizes(layers)

Cuts(n) ==
  UNION { { <<c1, c2>> : c2 \in ({ c1 + r : r \in 0 .. MaxRun } \cup {n}) \cap (c1 .. n) } :
          c1 \in 0 .. n }

TablesOfSize(n) == { Table(n, c[1], c[2]) : c \in Cuts(n) }

Tables(layers) ==
  UNION { TablesOfSize(n) :
          n \in (IF LayersOK(layers) THEN Sizes(layers) ELSE 0 .. MaxSmall) }

\* ------------------------------------------------------------- the state
VARIABLES
  status,       \* "new", "constructed", "ready", "fatal", "destroyed"
  table,        \* the external sorted table (keys by offset)
  num_layers,   \* num_layers_
  size,         \* size_ (base class), set by base_reorganize()
  container,    \* container_ (base class), set by base_reorganize()
  key_min,      \* key_min_: <<>> while uninitialized, <<k>> once written
  key_max,      \* key_max_
  inner_ptr,    \* inner_nodes_ as an address: NULLPTR, WILDPTR or a buffer id
  inner_nodes,  \* the keys of the buffer inner_nodes_ points to
  inner_size,   \* inner_size_
  allocated,    \* ids of the buffers new KeyT[] has returned
  frees,        \* id -> number of delete[] calls on that buffer
  wild_free,    \* delete[] was called on an address that was never allocated
  mem_ok,       \* no access outside the table or the buffer so far
  reorgs,       \* completed reorganize() calls
  op,           \* the last operation and its arguments
  values,       \* the vector the last find / find_range filled
  rpc,          \* reader -> position inside find()
  rkey,         \* reader -> key of its find()
  rrange,       \* reader -> offset_range
  roffset,      \* reader -> offset_find
  rvalues       \* reader -> its values vector

index_vars == <<num_layers, size, container, key_min, key_max, inner_ptr,
                inner_nodes, inner_size>>
heap_vars == <<allocated, frees, wild_free>>
reader_vars == <<rpc, rkey, rrange, roffset, rvalues>>
vars == <<status, table, index_vars, heap_vars, mem_ok, reorgs, op, values,
          reader_vars>>

\* ------------------------------------------------------------ Tree Builder
\* inner_nodes_[pos] = container_[off].key_; st = [nodes, ok].  A store
\* outside the buffer or a read outside the table clears ok, and the build
\* loops stop there.
Store(st, tbl, pos, off) ==
  IF pos \in DOMAIN st.nodes /\ off \in DOMAIN tbl
  THEN [st EXCEPT !.nodes[pos] = tbl[off]]
  ELSE [st EXCEPT !.ok = FALSE]

construct_simd_block_Mut(st, tbl, current_pos, lhs_offset, rhs_offset) ==
  LET step == (rhs_offset - lhs_offset + 1) \div 4
      s0 == Store(st, tbl, current_pos + 0, lhs_offset + 2 * step)
      s1 == Store(s0, tbl, current_pos + 1, lhs_offset + 1 * step)
  IN  Store(s1, tbl, current_pos + 2, lhs_offset + 3 * step - 1)

construct_simd_block_Order(st, tbl, current_pos, lhs_offset, rhs_offset) ==
  LET step == (rhs_offset - lhs_offset + 1) \div 4
      s0 == Store(st, tbl, current_pos + 0, lhs_offset + 1 * step - 1)
      s1 == Store(s0, tbl, current_pos + 1, lhs_offset + 2 * step - 1)
  IN  Store(s1, tbl, current_pos + 2, lhs_offset + 3 * step - 1)

construct_simd_block(st, tbl, current_pos, lhs_offset, rhs_offset) ==
  LET step == (rhs_offset - lhs_offset + 1) \div 4
      s0 == Store(st, tbl, current_pos + 0, lhs_offset + 2 * step - 1)
      s1 == Store(s0, tbl, current_pos + 1, lhs_offset + 1 * step - 1)
  IN  Store(s1, tbl, current_pos + 2, lhs_offset + 3 * step - 1)

\* the loop "for i in 0..3" of construct_cacheline_block (simd level 1)
RECURSIVE construct_simd_children(_, _, _, _, _, _)
construct_simd_children(st, tbl, current_pos, lhs_offset, step, i) ==
  IF ~st.ok \/ i >= 4 THEN st
  ELSE construct_simd_children(
         construct_simd_block(st, tbl, current_pos + 3 * (i + 1),
                              lhs_offset + step * i, lhs_offset + step * (i + 1) - 1),
         tbl, current_pos, lhs_offset, step, i + 1)

construct_cacheline_block(st, tbl, current_pos, lhs_offset, rhs_offset) ==
  LET s0 == construct_simd_block(st, tbl, current_pos, lhs_offset, rhs_offset)
      step == (rhs_offset - lhs_offset + 1) \div 4
  IN  construct_simd_children(s0, tbl, current_pos, lhs_offset, step, 0)

\* the inner loop "for j" of construct_inner_layers; returns [st, pos]
RECURSIVE construct_level(_, _, _, _, _, _)
construct_level(st, tbl, current_pos, step, num_cachelines, j) ==
  IF ~st.ok \/ j >= num_cachelines THEN [st |-> st, pos |-> current_pos]
  ELSE construct_level(
         construct_cacheline_block(st, tbl, current_pos, step * j, step * (j + 1) - 1),
         tbl, current_pos + 16, step, num_cachelines, j + 1)

\* the outer loop "for i" of construct_inner_layers
RECURSIVE construct_levels(_, _, _, _, _, _, _)
construct_levels(st, tbl, current_pos, lhs_offset, rhs_offset, cacheline_levels, i) ==
  IF ~st.ok \/ i >= cacheline_levels THEN st
  ELSE LET num_cachelines == Pow(16, i)
           step == (rhs_offset - lhs_offset + 1) \div num_cachelines
           lv == construct_level(st, tbl, current_pos, step, num_cachelines, 0)
       IN  construct_levels(lv.st, tbl, lv.pos, lhs_offset, rhs_offset,
                            cacheline_levels, i + 1)

\* st.nodes is the zeroed buffer; tbl the sorted container of n records
construct_inner_layers(st, tbl, n, layers) ==
  LET cacheline_levels == layers \div cacheline_depth_
      num_last_level_cachelines == Pow(16, cacheline_levels - 1)
      max_partitions == num_last_level_cachelines * 16
      lhs_offset == 0
      rhs_offset == n - 1 - (n % max_partitions)
      s0 == construct_cacheline_block(st, tbl, 0, lhs_offset, rhs_offset)
  IN  construct_levels(s0, tbl, 16, lhs_offset, rhs_offset, cacheline_levels, 1)

\* ------------------------------------------- Vectorized Branch Selector
\* one lane of _mm_loadu_si128(inner_nodes_ + pos); LoadOK tells whether the
\* load stays inside the buffer
Lane(p) == IF p \in DOMAIN inner_nodes THEN inner_nodes[p] ELSE 0
LoadOK(pos) == \A i \in 0 .. 3 : pos + i \in DOMAIN inner_nodes

Bit(b, w) == IF b THEN w ELSE 0

\* _mm_movemask_ps of the four signed 32-bit lane comparisons key > lane
\* (_mm_cmpgt_epi32): bit i is set when the key is greater than lane i
movemask(key, pos) ==
  Bit(key > Lane(pos + 0), 1) + Bit(key > Lane(pos + 1), 2)
  + Bit(key > Lane(pos + 2), 4) + Bit(key > Lane(pos + 3), 8)

\* static unsigned table[8]; 9 stands for impossible
branch_table == <<0, 9, 1, 2, 9, 9, 9, 3>>

lookup_simd_block(key, current_pos) ==
  LET index == movemask(key, current_pos)
  IN  branch_table[(index % 8) + 1]

lookup_cacheline_block(key, current_pos) ==
  LET branch_id == lookup_simd_block(key, current_pos)
      new_pos == current_pos + 3 * (branch_id + 1)
      new_branch_id == lookup_simd_block(key, new_pos)
  IN  branch_id * 4 + new_branch_id

\* the positions lookup_cacheline_block loads from
cacheline_loads(key, current_pos) ==
  { current_pos, current_pos + 3 * (lookup_simd_block(key, current_pos) + 1) }

\* ------------------------------------------------------------ Tree Lookup
\* the loop "for i" of find_inner_layers; returns the final branch_id,
\* num_cachelines and the positions loaded
RECURSIVE find_levels(_, _, _, _, _, _, _)
find_levels(key, branch_id, current_pos, num_cachelines, loads, cacheline_levels, i) ==
  IF i >= cacheline_levels
  THEN [branch_id |-> branch_id, num_cachelines |-> num_cachelines, loads |-> loads]
  ELSE LET new_branch_id == lookup_cacheline_block(key, current_pos + branch_id * 16)
       IN  find_levels(key, branch_id * 16 + new_branch_id,
                       current_pos + 16 * num_cachelines, Pow(16, i + 1),
                       loads \cup cacheline_loads(key, current_pos + branch_id * 16),
                       cacheline_levels, i + 1)

find_inner_walk(key) ==
  LET cacheline_levels == num_layers \div cacheline_depth_
  IN  find_levels(key, lookup_cacheline_block(key, 0), 16, Pow(16, 1),
                  cacheline_loads(key, 0), cacheline_levels, 1)

find_inner_layers(key) ==
  IF num_layers = 0 THEN <<0, size - 1>>
  ELSE LET cacheline_levels == num_layers \div cacheline_depth_
           num_last_level_cachelines == Pow(16, cacheline_levels - 1)
           max_partitions == num_last_level_cachelines * 16
           w == find_inner_walk(key)
           branch_id == w.branch_id
           num_cachelines == w.num_cachelines
           lhs_offset == 0
           rhs_offset == size - 1 - (size % max_partitions)
           step == (rhs_offset - lhs_offset + 1) \div num_cachelines
       IN  IF branch_id < num_cachelines - 1
           THEN <<branch_id * step, (branch_id + 1) * step - 1>>
           ELSE <<branch_id * step, size - 1>>

\* the positions find_inner_layers loads four lanes from
find_inner_loads(key) ==
  IF num_layers = 0 THEN {} ELSE find_inner_walk(key).loads

\* -------------------------------------------------------------- the find
\* container_[i].key_; InTable tells whether the access is inside the table
KeyAt(i) == IF i \in DOMAIN container THEN container[i] ELSE 0
InTable(i) == i \in DOMAIN container
\* container_[i].value_: the reference of the record at offset i
value_(i) == i

RECURSIVE find_internal(_, _, _)
find_internal(key, offset_begin, offset_end) ==
  IF offset_begin > offset_end THEN size
  ELSE LET offset_lookup == (offset_begin + offset_end) \div 2
           key_lookup == KeyAt(offset_lookup)
       IN  IF key = key_lookup THEN offset_lookup
           ELSE IF key > key_lookup
                THEN find_internal(key, offset_lookup + 1, offset_end)
                ELSE find_internal(key, offset_begin, offset_lookup - 1)

\* the loop "move left" of find: from offset_find_lhs down, while the offset
\* is >= 0 and its key equals key; stop is the offset the loop ends at
move_left(key, offset_find_lhs) ==
  LET low == IF offset_find_lhs < -1 THEN offset_find_lhs ELSE -1
      stop == CHOOSE j \in low .. offset_find_lhs :
                /\ j < 0 \/ KeyAt(j) # key
                /\ \A i \in j + 1 .. offset_find_lhs : KeyAt(i) = key
  IN  [i \in 1 .. offset_find_lhs - stop |-> value_(offset_find_lhs - i + 1)]

\* the loop "move right" of find: from offset_find_rhs up, while the offset
\* is < size_ - 1 and its key equals key; stop is the offset the loop ends at
move_right(key, offset_find_rhs) ==
  LET high == IF offset_find_rhs > size THEN offset_find_rhs ELSE size
      stop == CHOOSE j \in offset_find_rhs .. high :
                /\ ~(j < size - 1) \/ KeyAt(j) # key
                /\ \A i \in offset_find_rhs .. j - 1 : i < size - 1 /\ KeyAt(i) = key
  IN  [i \in 1 .. stop - offset_find_rhs |-> value_(offset_find_rhs + i - 1)]

\* lines 90-96 of find: the offset the scans start from; size_ for "nothing"
find_offset(key) ==
  LET offset_range == find_inner_layers(key)
  IN  IF offset_range[1] = offset_range[2]
      THEN offset_range[1]
      ELSE find_internal(key, offset_range[1], offset_range[2])

\* lines 103-126 of find: the record found, then the two scans
find_collect(key, offset_find) ==
  <<value_(offset_find)>> \o move_left(key, offset_find - 1)
                          \o move_right(key, offset_find + 1)

find(key) ==
  IF size = 0 THEN <<>>
  ELSE IF key > key_max[1] \/ key < key_min[1] THEN <<>>
  ELSE IF key_max = key_min
       THEN IF key_max[1] = key THEN [i \in 1 .. size |-> value_(i - 1)] ELSE <<>>
  ELSE LET offset_find == find_offset(key)
       IN  IF offset_find = size THEN <<>> ELSE find_collect(key, offset_find)

\* every load and every container_ access of find(key) is in bounds
find_in_bounds(key) ==
  \/ size = 0
  \/ key > key_max[1] \/ key < key_min[1]
  \/ key_max = key_min
  \/ /\ \A pos \in find_inner_loads(key) : LoadOK(pos)
     /\ LET r == find_inner_layers(key)
        IN  /\ r[1] <= r[2] => (InTable(r[1]) /\ InTable(r[2]))
            /\ find_offset(key) = size \/ InTable(find_offset(key))

find_range(lhs_key, rhs_key) ==
  IF size = 0 THEN <<>>
  ELSE IF lhs_key > key_max[1] \/ rhs_key < key_min[1] THEN <<>>
  ELSE <<>>

\* ----------------------------------------------------------- collaborators
\* ASSERT(condition, message): a failed condition ends the process
ASSERT_fails(condition) == ~condition

\* BaseStaticIndex::base_reorganize(): loads the sorted table into
\* container_ and its record count into size_
base_reorganize(tbl) ==
  [size |-> Cardinality(DOMAIN tbl), container |-> tbl]

\* --------------------------------------------------------------- actions
NoOp == <<"none", 0, 0>>

\* no query result is held by the caller
NoResult == op[1] \notin {"find", "find_range"}

Readers == {"r1", "r2"}

IdleReaders ==
  /\ rpc = [r \in Readers |-> "idle"]
  /\ rkey = [r \in Readers |-> 0]
  /\ rrange = [r \in Readers |-> <<0, 0>>]
  /\ roffset = [r \in Readers |-> 0]
  /\ rvalues = [r \in Readers |-> <<>>]

\* the object before the constructor body runs: num_layers_ is set by the
\* initializer list, the table is the caller's.  inner_nodes_ has no
\* initializer: it holds the null address or any other one.  key_min_,
\* key_max_ and inner_size_ are not read before reorganize() writes them.
Init ==
  /\ status = "new"
  /\ num_layers \in 0 .. MaxLayers
  /\ table \in Tables(num_layers)
  /\ size = 0
  /\ container = <<>>
  /\ key_min = <<>>
  /\ key_max = <<>>
  /\ inner_ptr \in {NULLPTR, WILDPTR}
  /\ inner_nodes = <<>>
  /\ inner_size = 0
  /\ allocated = {}
  /\ frees = [b \in 1 .. MaxReorg |-> 0]
  /\ wild_free = FALSE
  /\ mem_ok = TRUE
  /\ reorgs = 0
  /\ op = NoOp
  /\ values = <<>>
  /\ IdleReaders

\* FastIndex::FastIndex: the geometry and its ASSERTs
Construct ==
  /\ status = "new"
  /\ status' = IF ASSERT_fails(GeometryOK) \/ ASSERT_fails(LayersOK(num_layers))
               THEN "fatal" ELSE "constructed"
  /\ UNCHANGED <<table, index_vars, heap_vars, mem_ok, reorgs, op, values, reader_vars>>

TreeFitsMut(layers, n) == Pow(2, layers) - 1 <= n
\* inner_node_size < size_  (lines 145-147)
TreeFits(layers, n) == Pow(2, layers) - 1 < n

\* the buffer reorganize() allocates, zeroes and fills (lines 154-159)
NewBuffer(base) ==
  LET inner_node_size == Pow(2, num_layers) - 1
      num_cachelines == inner_node_size \div cacheline_key_capacity_
      isize == (num_cachelines * CACHELINE_SIZE) \div KEY_SIZE
      zeroed == [nodes |-> [p \in 0 .. isize - 1 |-> 0], ok |-> TRUE]
      built == construct_inner_layers(zeroed, base.container, base.size, num_layers)
  IN  [inner_size |-> isize, nodes |-> built.nodes, ok |-> built.ok]

\* FastIndex::reorganize
Reorganize ==
  /\ status \in {"constructed", "ready"}
  /\ NoResult
  /\ reorgs < MaxReorg
  /\ LET base == base_reorganize(table)
     IN  /\ size' = base.size
         /\ container' = base.container
         /\ IF ASSERT_fails(TreeFits(num_layers, base.size))
            THEN /\ status' = "fatal"
                 /\ UNCHANGED <<key_min, key_max, inner_ptr, inner_nodes, inner_size,
                                heap_vars, mem_ok, reorgs>>
            ELSE /\ status' = "ready"
                 /\ reorgs' = reorgs + 1
                 /\ key_min' = <<IF 0 \in DOMAIN base.container
                                 THEN base.container[0] ELSE 0>>
                 /\ key_max' = <<IF base.size - 1 \in DOMAIN base.container
                                 THEN base.container[base.size - 1] ELSE 0>>
                 /\ IF num_layers # 0
                    THEN LET buf == NewBuffer(base)
                             id == Cardinality(allocated) + 1
                         IN  /\ inner_size' = buf.inner_size
                             /\ inner_ptr' = id
                             /\ inner_nodes' = buf.nodes
                             /\ allocated' = allocated \cup {id}
                             /\ mem_ok' = (mem_ok /\ buf.ok /\ base.size > 0)
                    ELSE /\ inner_ptr' = NULLPTR
                         /\ inner_nodes' = <<>>
                         /\ mem_ok' = (mem_ok /\ base.size > 0)
                         /\ UNCHANGED <<inner_size, allocated>>
                 /\ UNCHANGED <<frees, wild_free>>
  /\ op' = NoOp
  /\ values' = <<>>
  /\ UNCHANGED <<table, num_layers, reader_vars>>

\* FastIndex::find, the whole call, on the caller's empty vector
Find(key) ==
  /\ status = "ready"
  /\ NoResult
  /\ values' = find(key)
  /\ op' = <<"find", key, key>>
  /\ mem_ok' = (mem_ok /\ find_in_bounds(key))
  /\ UNCHANGED <<status, table, index_vars, heap_vars, reorgs, reader_vars>>

\* FastIndex::find_range, the whole call (assert(lhs_key < rhs_key) holds)
FindRange(lhs_key, rhs_key) ==
  /\ status = "ready"
  /\ NoResult
  /\ lhs_key < rhs_key
  /\ values' = find_range(lhs_key, rhs_key)
  /\ op' = <<"find_range", lhs_key, rhs_key>>
  /\ UNCHANGED <<status, table, index_vars, heap_vars, mem_ok, reorgs, reader_vars>>

\* the caller is done with the vector a query filled
Drop ==
  /\ status = "ready"
  /\ ~NoResult
  /\ op' = NoOp
  /\ values' = <<>>
  /\ UNCHANGED <<status, table, index_vars, heap_vars, mem_ok, reorgs, reader_vars>>

\* FastIndex::~FastIndex
Destroy ==
  /\ status \in {"constructed", "ready"}
  /\ NoResult
  /\ status' = "destroyed"
  /\ IF num_layers # 0
     THEN /\ inner_ptr' = NULLPTR
          /\ IF inner_ptr = NULLPTR
             THEN UNCHANGED <<frees, wild_free>>
             ELSE IF inner_ptr \in allocated
                  THEN /\ frees' = [frees EXCEPT ![inner_ptr] = @ + 1]
                       /\ UNCHANGED wild_free
                  ELSE /\ wild_free' = TRUE
                       /\ UNCHANGED frees
     ELSE UNCHANGED <<inner_ptr, frees, wild_free>>
  /\ op' = NoOp
  /\ values' = <<>>
  /\ UNCHANGED <<table, num_layers, size, container, key_min, key_max, inner_nodes,
                 inner_size, allocated, mem_ok, reorgs, reader_vars>>

Next ==
  \/ Construct
  \/ Reorganize
  \/ \E key \in QueryKeys : Find(key)
  \/ \E lhs_key \in Keys, rhs_key \in QueryKeys : FindRange(lhs_key, rhs_key)
  \/ Drop
  \/ Destroy

Spec == Init /\ [][Next]_vars

\* ------------------------------------------------- concurrent readers
\* find() by reader r, in the steps between which other readers may run

\* lines 74-88: the empty index, the bounds, the single-key table
RStart(r, key) ==
  /\ status = "ready"
  /\ rpc[r] = "idle"
  /\ rkey' = [rkey EXCEPT ![r] = key]
  /\ IF size = 0 \/ key > key_max[1] \/ key < key_min[1]
     THEN /\ rpc' = [rpc EXCEPT ![r] = "done"]
          /\ UNCHANGED rvalues
     ELSE IF key_max = key_min
          THEN /\ rpc' = [rpc EXCEPT ![r] = "done"]
               /\ rvalues' = [rvalues EXCEPT ![r] =
                                IF key_max[1] = key
                                THEN [i \in 1 .. size |-> value_(i - 1)] ELSE <<>>]
          ELSE /\ rpc' = [rpc EXCEPT ![r] = "lookup"]
               /\ UNCHANGED rvalues
  /\ UNCHANGED <<status, table, index_vars, heap_vars, mem_ok, reorgs, op, values,
                 rrange, roffset>>

RLookupMut(r) ==
  /\ status = "ready"
  /\ rpc[r] = "lookup"
  /\ rrange' = [rrange EXCEPT ![r] = find_inner_layers(rkey[r])]
  /\ rpc' = [rpc EXCEPT ![r] = "search"]
  /\ key_min' = <<rkey[r]>>
  /\ UNCHANGED <<status, table, num_layers, size, container, key_max, inner_ptr,
                 inner_nodes, inner_size, heap_vars, mem_ok, reorgs, op, values,
                 rkey, roffset, rvalues>>

\* line 91: find_inner_layers
RLookup(r) ==
  /\ status = "ready"
  /\ rpc[r] = "lookup"
  /\ rrange' = [rrange EXCEPT ![r] = find_inner_layers(rkey[r])]
  /\ rpc' = [rpc EXCEPT ![r] = "search"]
  /\ UNCHANGED <<status, table, index_vars, heap_vars, mem_ok, reorgs, op, values,
                 rkey, roffset, rvalues>>

\* lines 92-101: the offset of the exact match, or "find nothing"
RSearch(r) ==
  /\ status = "ready"
  /\ rpc[r] = "search"
  /\ LET offset_find == IF rrange[r][1] = rrange[r][2]
                        THEN rrange[r][1]
                        ELSE find_internal(rkey[r], rrange[r][1], rrange[r][2])
     IN  /\ roffset' = [roffset EXCEPT ![r] = offset_find]
         /\ rpc' = [rpc EXCEPT ![r] = IF offset_find = size THEN "done" ELSE "scan"]
  /\ UNCHANGED <<status, table, index_vars, heap_vars, mem_ok, reorgs, op, values,
                 rkey, rrange, rvalues>>

\* lines 103-126: the record found and the two scans
RScan(r) ==
  /\ status = "ready"
  /\ rpc[r] = "scan"
  /\ rvalues' = [rvalues EXCEPT ![r] = find_collect(rkey[r], roffset[r])]
  /\ rpc' = [rpc EXCEPT ![r] = "done"]
  /\ UNCHANGED <<status, table, index_vars, heap_vars, mem_ok, reorgs, op, values,
                 rkey, rrange, roffset>>

\* find_range() by reader r: one step, the bounds check and nothing else
RRange(r, lhs_key, rhs_key) ==
  /\ status = "ready"
  /\ rpc[r] = "idle"
  /\ lhs_key < rhs_key
  /\ rkey' = [rkey EXCEPT ![r] = lhs_key]
  /\ rrange' = [rrange EXCEPT ![r] = <<lhs_key, rhs_key>>]
  /\ rvalues' = [rvalues EXCEPT ![r] = find_range(lhs_key, rhs_key)]
  /\ rpc' = [rpc EXCEPT ![r] = "range_done"]
  /\ UNCHANGED <<status, table, index_vars, heap_vars, mem_ok, reorgs, op, values,
                 roffset>>

ReaderStep(r) ==
  \/ \E key \in QueryKeys : RStart(r, key)
  \/ RLookup(r)
  \/ RSearch(r)
  \/ RScan(r)
  \/ \E lhs_key \in Keys : RRange(r, lhs_key, lhs_key + 1)

\* the caller's discipline: no rebuild while a reader is inside a query
NoReaderRunning == \A r \in Readers : rpc[r] = "idle"

\* tables of the readers' specification: at most one cache line of fences
ReadersInit ==
  /\ Init
  /\ Cardinality(DOMAIN table) <= Pow(2, cacheline_depth_) + MaxTail

ReadersNext ==
  \/ Construct
  \/ NoReaderRunning /\ Reorganize
  \/ \E r \in Readers : ReaderStep(r)

SpecReaders == ReadersInit /\ [][ReadersNext]_vars

\* ------------------------------------------- the branch selector by itself
\* one 128-bit load: three fence keys and the lane after them, any contents
SelectorInit ==
  /\ status = "ready"
  /\ num_layers = cacheline_depth_
  /\ table = <<>>
  /\ size = 0
  /\ container = <<>>
  /\ key_min = <<>>
  /\ key_max = <<>>
  /\ inner_ptr = 1
  /\ inner_nodes \in [0 .. 3 -> Keys]
  /\ inner_size = 4
  /\ allocated = {1}
  /\ frees = [b \in 1 .. MaxReorg |-> 0]
  /\ wild_free = FALSE
  /\ mem_ok = TRUE
  /\ reorgs = 1
  /\ op = NoOp
  /\ values = <<>>
  /\ IdleReaders

\* lookup_simd_block(key, 0) is called; values holds what it returns, op the
\* key and the comparison mask
Select(key) ==
  /\ NoResult
  /\ op[1] # "lookup_simd_block"
  /\ op' = <<"lookup_simd_block", key, movemask(key, 0) % 8>>
  /\ values' = <<lookup_simd_block(key, 0)>>
  /\ UNCHANGED <<status, table, index_vars, heap_vars, mem_ok, reorgs, reader_vars>>

SelectorNext == \E key \in QueryKeys : Select(key)

SpecSelector == SelectorInit /\ [][SelectorNext]_vars

\* ---------------------------------------------------------- the claims
\* the offsets of the records whose key is key / lies in [lo, hi)
Matches(key) == { i \in DOMAIN container : container[i] = key }
MatchesRange(lo, hi) == { i \in DOMAIN container : lo <= container[i] /\ container[i] < hi }

\* the references of vector v, as a set, and whether none occurs twice
Refs(v) == { v[i] : i \in DOMAIN v }
NoRepeat(v) == Cardinality(Refs(v)) = Len(v)

\* a find() / find_range() has just returned into values
AfterFind == status = "ready" /\ op[1] = "find"
AfterFindRange == status = "ready" /\ op[1] = "find_range"
\* a rebuild has completed and no query result is held
Rebuilt == status = "ready" /\ NoResult

\* C1: after reorganize() on a sorted table with a valid num_layers, find(k)
\* returns exactly the multiset of references of the records whose key is k,
\* for keys present and for keys absent.
C1_FindExact ==
  AfterFind => (NoRepeat(values) /\ Refs(values) = Matches(op[2]))

\* C2: after reorganize(), find_range(lo, hi) with lo < hi returns exactly the
\* references of the records whose key lies in [lo, hi).
C2_FindRangeExact ==
  AfterFindRange => (NoRepeat(values) /\ Refs(values) = MatchesRange(op[2], op[3]))

\* buffers allocated and not released
Live == { b \in allocated : frees[b] = 0 }

\* C3: with num_layers # 0, at most one Inner-Node Buffer is live at any time
\* (a rebuild releases the buffer it replaces), no address that was never
\* allocated is released, no buffer is released twice, and after destruction
\* every allocated buffer has been released exactly once.
C3_BufferOwnership ==
  num_layers # 0 =>
    /\ Cardinality(Live) <= 1
    /\ ~wild_free
    /\ \A b \in DOMAIN frees : frees[b] <= 1 /\ (frees[b] = 1 => b \in allocated)
    /\ status = "destroyed" => \A b \in allocated : frees[b] = 1

\* C4: an index serves queries only with num_layers a multiple of 4 and
\* 2^num_layers - 1 < table size; the constructor ends fatally for any other
\* num_layers, reorganize() ends fatally when 2^num_layers - 1 >= table size,
\* and that step writes none of key_min, key_max and the Inner-Node Buffer.
C4_MisconfiguredNeverServes ==
  /\ [](status \in {"constructed", "ready", "destroyed"} => num_layers % 4 = 0)
  /\ [](status = "ready" =>
          /\ size = Cardinality(DOMAIN table)
          /\ Pow(2, num_layers) - 1 < size)
  /\ [][(status = "new" /\ num_layers % 4 # 0) => status' = "fatal"]_vars
  /\ [][(status \in {"constructed", "ready"} /\ status' \in {"ready", "fatal"}
           /\ Pow(2, num_layers) - 1 >= Cardinality(DOMAIN table))
         => /\ status' = "fatal"
            /\ UNCHANGED <<key_min, key_max, inner_ptr, inner_nodes, inner_size,
                           allocated>>]_vars

\* C4 witness: reorganize() has ended fatally on a table too small for a
\* one-level tree, with the bounds and the buffer untouched
C4_Witness ==
  /\ status = "fatal"
  /\ num_layers = 4
  /\ size = MaxSmall
  /\ container = table
  /\ key_min = <<>>
  /\ allocated = {}

\* the state readers must leave alone
shared_vars == <<table, index_vars>>

\* C5: the steps of find and find_range change none of the Inner-Node Buffer,
\* key_min, key_max, the size and the sorted table, and every find call
\* interleaved with other readers ends with the result the call gives alone.
C5_ReadersIsolated ==
  /\ [][(\E r \in Readers : rpc'[r] # rpc[r]) => UNCHANGED shared_vars]_vars
  /\ [](\A r \in Readers :
          /\ rpc[r] = "done" => rvalues[r] = find(rkey[r])
          /\ rpc[r] = "range_done" => rvalues[r] = find_range(rrange[r][1], rrange[r][2]))

\* C5 witness: both readers ran find at once on a one-level tree, one through
\* the scans to a result, the other still inside the tree lookup
C5_Witness ==
  /\ num_layers = 4
  /\ rpc["r1"] = "done" /\ Len(rvalues["r1"]) = 2
  /\ rpc["r2"] = "search" /\ rkey["r2"] # rkey["r1"]

\* the partition count, the indexed range and the partition width of the tree
Partitions == Pow(16, num_layers \div 4)
Indexed == size - (size % Partitions)
Width == Indexed \div Partitions

\* range r is partition b of the indexed range, the last one up to size - 1
IsPartition(r) ==
  /\ r[1] % Width = 0
  /\ LET b == r[1] \div Width
     IN  /\ b \in 0 .. Partitions - 1
         /\ r[2] = IF b = Partitions - 1 THEN size - 1 ELSE (b + 1) * Width - 1

\* C6: after a rebuild, for every key k with key_min <= k <= key_max the Tree
\* Lookup returns [lo, hi] with 0 <= lo <= hi <= size - 1, one of the 16^levels
\* equal-width partitions (the last extended to size - 1; [0, size - 1] for
\* num_layers = 0); build and lookup stay inside the table and the buffer; and
\* if k occurs in the table, a record with key k lies in [lo, hi].
C6_LookupRange ==
  Rebuilt =>
    /\ mem_ok
    /\ \A k \in QueryKeys :
         (key_min[1] <= k /\ k <= key_max[1]) =>
           LET r == find_inner_layers(k)
           IN  /\ 0 <= r[1] /\ r[1] <= r[2] /\ r[2] <= size - 1
               /\ IsPartition(r)
               /\ num_layers = 0 => r = <<0, size - 1>>
               /\ \A pos \in find_inner_loads(k) : LoadOK(pos)
               /\ Matches(k) # {} => \E i \in r[1] .. r[2] : KeyAt(i) = k

\* C6 witness: a two-level tree over 257 records sends key 1, whose records
\* are the last two, to the last partition extended over the tail
C6_Witness ==
  /\ Rebuilt
  /\ num_layers = 8
  /\ size = 257
  /\ Matches(1) = {255, 256}
  /\ find_inner_layers(1) = <<255, 256>>

\* the positions of the vector blocks of the buffer: five per cache line
BlockPositions ==
  { c * 16 + 3 * j : c \in 0 .. (inner_size \div 16) - 1, j \in 0 .. 4 }

\* the naive scalar selector: how many of the three fences are below the key
ScalarBranch(key, pos) ==
  Cardinality({ i \in 0 .. 2 : inner_nodes[pos + i] < key })

LegalMasks == {0, 2, 3, 7}

\* C7: every vector block built from a sorted table holds {2nd, 1st, 3rd}
\* quarter keys with 1st <= 2nd <= 3rd; for every key the comparison mask is
\* one of 000, 010, 011, 111 and the branch id is the number of fences
\* strictly below the key.
C7_SelectorMatchesScalar ==
  (Rebuilt /\ num_layers # 0) =>
    \A pos \in BlockPositions :
      /\ inner_nodes[pos + 1] <= inner_nodes[pos]
      /\ inner_nodes[pos] <= inner_nodes[pos + 2]
      /\ \A k \in QueryKeys :
           /\ (movemask(k, pos) % 8) \in LegalMasks
           /\ lookup_simd_block(k, pos) = ScalarBranch(k, pos)

\* C7 witness: a block with three different fences, on which the keys 0..3
\* give the four legal masks
C7_Witness ==
  /\ Rebuilt
  /\ num_layers # 0
  /\ \E pos \in BlockPositions :
       { movemask(k, pos) % 8 : k \in QueryKeys } = LegalMasks

\* C8: when the Branch Selector computes a mask other than 000, 010, 011, 111
\* the lookup ends fatally and returns no branch id.
C8_IllegalMaskFatal ==
  (op[1] = "lookup_simd_block" /\ op[3] \notin LegalMasks) =>
    (status = "fatal" /\ values = <<>>)

\* C9: find(k) for a key k in [key_min, key_max] that no record has returns
\* nothing, whatever the offset range of the Tree Lookup.
C9_AbsentKeyEmpty ==
  (AfterFind /\ key_min[1] <= op[2] /\ op[2] <= key_max[1] /\ Matches(op[2]) = {})
    => values = <<>>

\* C10: when find(k) has found k at some offset, the scans collect the
\* reference of every record with key k, the last record of the table included.
C10_AllDuplicates ==
  (AfterFind /\ values # <<>> /\ KeyAt(values[1]) = op[2])
    => Matches(op[2]) \subseteq Refs(values)

====
